---- MODULE Spec2Model ----
(***************************************************************************)
(* Model of scripts/convert_solutions_latex_to_pretext.py.                 *)
(*                                                                         *)
(* A text is a sequence of lexical units.  A unit is either one character  *)
(* ("{", "}", "&", " ", ...) or one fixed multi-character literal that the *)
(* script's regular expressions match as a whole (an exercise comment      *)
(* line, the \eocesol command name, a chapter marker, ...).  Positions are *)
(* 0-based as in the Python source: At(s, p) is s[p], Slice(s, a, b) is    *)
(* s[a:b].                                                                 *)
(***************************************************************************)
EXTENDS Integers, Sequences, FiniteSets, TLC

VARIABLES
    pc,               \* control point of the running function
    content,          \* parse_solutions: the text read from the input file
    chapters,         \* parse_solutions: list of {'name', 'solutions'}
    chap_i,           \* parse_solutions: index i of the chapter loop
    chapter_content,  \* parse_solutions: content[start_pos:end_pos]
    solutions,        \* parse_solutions: entries of the current chapter
    pos,              \* parse_solutions: scan position in chapter_content
    exercise_num,     \* parse_solutions: comment_match.group(1)
    comment_end,      \* parse_solutions: pos + comment_match.end()
    comment_at,       \* history: pos + comment_match.start()
    eocesol_end,      \* parse_solutions: eocesol_match.end()
    text,             \* extract_braced_content: argument text
    start_pos,        \* extract_braced_content: argument start_pos
    depth,            \* extract_braced_content: brace depth
    i,                \* extract_braced_content: loop index
    result,           \* extract_braced_content: accumulated characters
    ret,              \* extract_braced_content: returned pair
    marks,            \* history: where each entry of each chapter was read
    latex_content,    \* convert_latex_to_pretext: argument
    converted,        \* convert_latex_to_pretext: returned text
    reconverted,      \* the translation of the returned text
    sol_exercise_num, \* create_pretext_solution: argument exercise_num
    sol_text,         \* create_pretext_solution: argument solution_text
    sol_xml,          \* create_pretext_solution: returned text
    input_file,       \* main: the file at latex_file
    output_file,      \* main: the file at output_file
    lines,            \* generate_pretext_file: the list lines
    gen_i,            \* generate_pretext_file: chapters taken by the for loop
    writes            \* history: completed calls of f.write

parseVars == <<content, chapters, chap_i, chapter_content, solutions, pos,
               exercise_num, comment_end, comment_at, eocesol_end, marks>>
braceVars == <<text, start_pos, depth, i, result, ret>>
convVars == <<latex_content, converted, reconverted>>
solVars == <<sol_exercise_num, sol_text, sol_xml>>
mainVars == <<input_file, output_file, lines, gen_i, writes>>
otherVars == <<convVars, solVars, mainVars>>
vars == <<pc, parseVars, braceVars, otherVars>>

-----------------------------------------------------------------------------
(* Bounds of the model                                                     *)

MaxLen == 6          \* longest input text of parse_solutions
MaxFairLen == 5      \* longest input text when termination is checked
MaxBraceLen == 7     \* longest text handed to extract_braced_content alone
MaxProseLen == 4     \* longest prose text handed to convert_latex_to_pretext
MaxMarkupLen == 3    \* longest markup text handed to convert_latex_to_pretext
MaxSolLen == 5       \* longest text handed to create_pretext_solution alone
MaxBlocks == 3       \* most blocks of the input file of a whole run

-----------------------------------------------------------------------------
(* Texts                                                                   *)

At(s, p) == s[p + 1]
Slice(s, a, b) == SubSeq(s, a + 1, b)
Texts(A, n) == UNION {[1..k -> A] : k \in 0..n}

\* a returned pair (content, next position); content None is some = FALSE
Pair(c, n) == [some |-> TRUE, content |-> c, next |-> n]
NonePair(n) == [some |-> FALSE, content |-> <<>>, next |-> n]

\* r'%\s*(\d+)\s*\n': one whole exercise comment line per unit
Comments == {"%1", "%2"}
ExerciseNum(t) == IF t = "%1" THEN "1" ELSE "2"

\* r'\\eocesolch\{([^}]+)\}': one whole chapter marker per unit
ChapterMarkers == {"\\eocesolch{Probability}", "\\eocesolch{Summarizing data}",
                   "\\eocesolch{probability}", "\\eocesolch{Review}"}
ChapterName(t) ==
    CASE t = "\\eocesolch{Probability}" -> "Probability"
      [] t = "\\eocesolch{Summarizing data}" -> "Summarizing data"
      [] t = "\\eocesolch{probability}" -> "probability"
      [] t = "\\eocesolch{Review}" -> "Review"

\* "\\eocesol" is the command name (with any blanks after it); the regular
\* expression r'\\eocesol\s*\{' matches it when a "{" follows.
ParseAlphabet == Comments \cup {"\\eocesolch{Probability}", "\\eocesol", "{", "}", "x"}
BraceAlphabet == {"{", "}", "x"}

\* re.search(r'%\s*(\d+)\s*\n', s): start of the first match in s, or -1
\* (the match is one unit long)
SearchComment(s) ==
    LET hits == {p \in 0..(Len(s) - 1) : At(s, p) \in Comments}
    IN  IF hits = {} THEN -1 ELSE CHOOSE p \in hits : \A q \in hits : p <= q

\* re.search(r'\\eocesol\s*\{', s): start of the first match in s, or -1
\* (the match is two units long: the command name and the brace)
SearchEocesol(s) ==
    LET hits == {p \in 0..(Len(s) - 2) :
                    At(s, p) = "\\eocesol" /\ At(s, p + 1) = "{"}
    IN  IF hits = {} THEN -1 ELSE CHOOSE p \in hits : \A q \in hits : p <= q

\* a variant that takes the end of the match within the slice for a
\* position of chapter_content
CommentEndInSlice(p, match_end) == match_end

\* line 170: comment_end = pos + comment_match.end()
CommentEnd(p, match_end) == p + match_end

\* a variant that also keeps the outermost opening brace
KeepOpenAlways(d) == d > 0

\* line 120: an opening brace is kept unless it is the outermost one
KeepOpen(d) == d > 1

\* list(re.finditer(chapter_pattern, content)): positions of the markers
ChapterMatches(s) == {p \in 0..(Len(s) - 1) : At(s, p) \in ChapterMarkers}
NthMatch(s, k) ==
    CHOOSE p \in ChapterMatches(s) :
        Cardinality({q \in ChapterMatches(s) : q < p}) = k

\* line 148: start_pos = match.end()
ChapterStart(s, k) == NthMatch(s, k) + 1
\* a variant that lets every chapter run to the end of the file
ChapterEndOfFile(s, k) == Len(s)

\* lines 151-154: end_pos = chapter_matches[i + 1].start(), or len(content)
ChapterEnd(s, k) ==
    IF k + 1 < Cardinality(ChapterMatches(s)) THEN NthMatch(s, k + 1)
    ELSE Len(s)

-----------------------------------------------------------------------------
(* extract_braced_content(text, start_pos)                                 *)

\* lines 109-114: the guard, then depth = 0, i = start_pos, result = []
BraceEnter ==
    /\ pc = "brace_enter"
    /\ IF start_pos >= Len(text) \/ At(text, start_pos) # "{"
       THEN /\ ret' = NonePair(start_pos)
            /\ pc' = "brace_return"
            /\ UNCHANGED <<depth, i, result>>
       ELSE /\ depth' = 0
            /\ i' = start_pos
            /\ result' = <<>>
            /\ pc' = "brace_loop"
            /\ UNCHANGED ret
    /\ UNCHANGED <<text, start_pos, parseVars>>
    /\ UNCHANGED otherVars

\* lines 116-130: one iteration of the while loop
BraceStep ==
    /\ pc = "brace_loop"
    /\ i < Len(text)
    /\ LET char == At(text, i) IN
         IF char = "{" THEN
            /\ depth' = depth + 1
            /\ result' = IF KeepOpen(depth + 1) THEN Append(result, char) ELSE result
            /\ i' = i + 1
            /\ UNCHANGED <<ret, pc>>
         ELSE IF char = "}" THEN
            /\ depth' = depth - 1
            /\ IF depth - 1 = 0
               THEN /\ ret' = Pair(result, i + 1)
                    /\ pc' = "brace_return"
                    /\ UNCHANGED <<result, i>>
               ELSE /\ result' = Append(result, char)
                    /\ i' = i + 1
                    /\ UNCHANGED <<ret, pc>>
         ELSE
            /\ result' = IF depth > 0 THEN Append(result, char) ELSE result
            /\ i' = i + 1
            /\ UNCHANGED <<depth, ret, pc>>
    /\ UNCHANGED <<text, start_pos, parseVars>>
    /\ UNCHANGED otherVars

\* line 132: the loop ran off the end of the text
BraceExit ==
    /\ pc = "brace_loop"
    /\ ~(i < Len(text))
    /\ ret' = Pair(result, i)
    /\ pc' = "brace_return"
    /\ UNCHANGED <<text, start_pos, depth, i, result, parseVars>>
    /\ UNCHANGED otherVars

-----------------------------------------------------------------------------
(* parse_solutions(latex_file_path)                                        *)

\* lines 141-146: chapters = [], the chapter matches, the for loop begins
FindChapters ==
    /\ pc = "parse"
    /\ chapters' = <<>>
    /\ chap_i' = 0
    /\ pc' = "chapter"
    /\ UNCHANGED <<content, chapter_content, solutions, pos, exercise_num,
                   comment_end, comment_at, eocesol_end, marks, braceVars>>
    /\ UNCHANGED otherVars

\* lines 146-162: the next chapter match, its span, solutions = [], pos = 0
NextChapter ==
    /\ pc = "chapter"
    /\ chap_i < Cardinality(ChapterMatches(content))
    /\ chapter_content' =
          Slice(content, ChapterStart(content, chap_i), ChapterEnd(content, chap_i))
    /\ solutions' = <<>>
    /\ pos' = 0
    /\ marks' = Append(marks, <<>>)
    /\ pc' = "scan"
    /\ UNCHANGED <<content, chapters, chap_i, exercise_num, comment_end,
                   comment_at, eocesol_end, braceVars>>
    /\ UNCHANGED otherVars

\* lines 163-180: one pass of the scan loop up to the call of
\* extract_braced_content
ScanSearch ==
    /\ pc = "scan"
    /\ LET comment_match == SearchComment(Slice(chapter_content, pos, Len(chapter_content)))
           cend == CommentEnd(pos, comment_match + 1)
           eocesol_match == SearchEocesol(Slice(chapter_content, cend, Len(chapter_content)))
       IN
         IF ~(pos < Len(chapter_content)) \/ comment_match = -1 THEN
            \* the loop condition is false, or line 167: break
            /\ pc' = "end_chapter"
            /\ UNCHANGED <<pos, exercise_num, comment_end, comment_at, eocesol_end, braceVars>>
         ELSE IF eocesol_match = -1 THEN
            \* lines 174-176: pos = comment_end; continue
            /\ exercise_num' = ExerciseNum(At(chapter_content, pos + comment_match))
            /\ comment_at' = pos + comment_match
            /\ comment_end' = cend
            /\ pos' = cend
            /\ UNCHANGED <<pc, eocesol_end, braceVars>>
         ELSE
            \* lines 179-180: brace_start, call extract_braced_content
            /\ exercise_num' = ExerciseNum(At(chapter_content, pos + comment_match))
            /\ comment_at' = pos + comment_match
            /\ comment_end' = cend
            /\ eocesol_end' = eocesol_match + 2
            /\ text' = chapter_content
            /\ start_pos' = cend + (eocesol_match + 2) - 1
            /\ pc' = "brace_enter"
            /\ UNCHANGED <<pos, depth, i, result, ret>>
    /\ UNCHANGED <<content, chapters, chap_i, chapter_content, solutions, marks>>
    /\ UNCHANGED otherVars

\* lines 180-185: the call returned; append if the text is truthy; advance
ScanAppend ==
    /\ pc = "brace_return"
    /\ LET solution_text == ret.content IN
         IF ret.some /\ solution_text # <<>>
         THEN /\ solutions' = Append(solutions, <<exercise_num, solution_text>>)
              /\ marks' = [marks EXCEPT ![Len(marks)] =
                              Append(@, [comment_at |-> ChapterStart(content, chap_i) + comment_at,
                                         brace_at |-> ChapterStart(content, chap_i) + start_pos])]
         ELSE UNCHANGED <<solutions, marks>>
    /\ pos' = comment_end + eocesol_end
    /\ pc' = "scan"
    /\ UNCHANGED <<content, chapters, chap_i, chapter_content, exercise_num,
                   comment_end, comment_at, eocesol_end, braceVars>>
    /\ UNCHANGED otherVars

\* lines 187-190: chapters.append(...), next item of the for loop
EndChapter ==
    /\ pc = "end_chapter"
    /\ chapters' = Append(chapters,
          [name |-> ChapterName(At(content, NthMatch(content, chap_i))),
           solutions |-> solutions])
    /\ chap_i' = chap_i + 1
    /\ pc' = "chapter"
    /\ UNCHANGED <<content, chapter_content, solutions, pos, exercise_num,
                   comment_end, comment_at, eocesol_end, marks, braceVars>>
    /\ UNCHANGED otherVars

\* line 192: return chapters
ParseReturn ==
    /\ pc = "chapter"
    /\ ~(chap_i < Cardinality(ChapterMatches(content)))
    /\ pc' = "parsed"
    /\ UNCHANGED <<parseVars, braceVars>>
    /\ UNCHANGED otherVars

\* the variables of parse_solutions before it runs
ParseIdle ==
    /\ chapters = <<>>
    /\ chap_i = 0
    /\ chapter_content = <<>>
    /\ solutions = <<>>
    /\ pos = 0
    /\ exercise_num = "0"
    /\ comment_end = 0
    /\ comment_at = 0
    /\ eocesol_end = 0
    /\ marks = <<>>

\* the locals of extract_braced_content before it runs
BraceIdle ==
    /\ depth = 0
    /\ i = 0
    /\ result = <<>>
    /\ ret = NonePair(0)

\* the variables of the translator before it runs
ConvIdle ==
    /\ latex_content = <<>>
    /\ converted = <<>>
    /\ reconverted = <<>>

\* the variables of create_pretext_solution before it runs
SolIdle ==
    /\ sol_exercise_num = "0"
    /\ sol_text = <<>>
    /\ sol_xml = <<>>

\* a file that does not exist, a file that holds a text
NoFile == [exists |-> FALSE, data |-> <<>>]
File(t) == [exists |-> TRUE, data |-> t]

\* the variables of main and generate_pretext_file before they run
MainIdle ==
    /\ input_file = NoFile
    /\ output_file = NoFile
    /\ lines = <<>>
    /\ gen_i = 0
    /\ writes = 0

InitParse ==
    /\ pc = "parse"
    /\ content \in Texts(ParseAlphabet, MaxLen)
    /\ ParseIdle
    /\ text = <<>>
    /\ start_pos = 0
    /\ BraceIdle
    /\ ConvIdle
    /\ SolIdle
    /\ MainIdle

NextParse ==
    \/ FindChapters
    \/ NextChapter
    \/ ScanSearch
    \/ BraceEnter
    \/ BraceStep
    \/ BraceExit
    \/ ScanAppend
    \/ EndChapter
    \/ ParseReturn

SpecParse == InitParse /\ [][NextParse]_vars

\* the same on the texts of at most MaxFairLen units
InitFairParse ==
    /\ InitParse
    /\ Len(content) <= MaxFairLen

\* the script is one sequential process: a step that can be taken is taken
FairSpecParse == InitFairParse /\ [][NextParse]_vars /\ WF_vars(NextParse)

-----------------------------------------------------------------------------
(* extract_braced_content called on its own                                *)

InitBrace ==
    /\ pc = "brace_enter"
    /\ text \in Texts(BraceAlphabet, MaxBraceLen)
    /\ start_pos \in 0..MaxBraceLen
    /\ BraceIdle
    /\ content = <<>>
    /\ ParseIdle
    /\ ConvIdle
    /\ SolIdle
    /\ MainIdle

NextBrace ==
    \/ BraceEnter
    \/ BraceStep
    \/ BraceExit

SpecBrace == InitBrace /\ [][NextBrace]_vars

-----------------------------------------------------------------------------
(* Reference notions the claims are stated with                            *)

Count(s, a, b, c) == Cardinality({q \in a..b : At(s, q) = c})

\* j closes the brace opened at p: the first position after p where as many
\* braces have been closed as opened
Closes(s, p, j) ==
    /\ j > p
    /\ j < Len(s)
    /\ At(s, j) = "}"
    /\ Count(s, p, j, "{") = Count(s, p, j, "}")
    /\ \A q \in (p + 1)..(j - 1) : Count(s, p, q, "{") # Count(s, p, q, "}")

Balanced(s, p) == \E j \in 0..(Len(s) - 1) : Closes(s, p, j)
MatchingClose(s, p) == CHOOSE j \in 0..(Len(s) - 1) : Closes(s, p, j)

\* C2: when text[start_pos] is "{" and that brace is balanced,
\* extract_braced_content returns exactly the characters strictly between the
\* brace and its matching "}", and the position just after the matching "}".
C2_BraceRoundTrip ==
    (/\ pc = "brace_return"
     /\ start_pos < Len(text)
     /\ At(text, start_pos) = "{"
     /\ Balanced(text, start_pos))
    => ret = Pair(Slice(text, start_pos + 1, MatchingClose(text, start_pos)),
                  MatchingClose(text, start_pos) + 1)

\* a call on a balanced brace with a nested pair inside and text after it
C2_Witness ==
    /\ pc = "brace_return"
    /\ start_pos > 0
    /\ ret.some
    /\ \E q \in 1..Len(ret.content) : ret.content[q] = "{"
    /\ \E q \in 1..Len(ret.content) : ret.content[q] = "}"
    /\ ret.next < Len(text)
    /\ At(text, ret.next - 1) = "}"

-----------------------------------------------------------------------------
(* Claims about parse_solutions                                            *)

\* the chapter markers of the input and the span of the k-th chapter
\* (k = 1, 2, ...): from just after its marker to just before the next one
Markers == {p \in 0..(Len(content) - 1) : At(content, p) \in ChapterMarkers}
MarkerAt(k) == CHOOSE p \in Markers : Cardinality({q \in Markers : q <= p}) = k
SpanFirst(k) == MarkerAt(k) + 1
SpanEnd(k) == IF k < Cardinality(Markers) THEN MarkerAt(k + 1) ELSE Len(content)

\* the entries extracted so far for chapter k, finished or in progress
EntriesOf(k) == IF k <= Len(chapters) THEN chapters[k].solutions ELSE solutions

\* C10: every entry of a chapter's list is read entirely inside that chapter's
\* span, also when its brace is never closed: its comment and its opening
\* brace lie in the span, and its text is the run of characters after the
\* brace, ending before the next chapter marker (or the end of the text).
C10_EntryWithinChapter ==
    /\ Len(marks) <= Cardinality(Markers)
    /\ Len(chapters) <= Len(marks)
    /\ \A k \in 1..Len(marks) :
          /\ Len(marks[k]) = Len(EntriesOf(k))
          /\ \A j \in 1..Len(marks[k]) :
                LET m == marks[k][j]
                    txt == EntriesOf(k)[j][2]
                IN  /\ SpanFirst(k) <= m.comment_at
                    /\ m.comment_at < m.brace_at
                    /\ m.brace_at + Len(txt) < SpanEnd(k)
                    /\ txt = Slice(content, m.brace_at + 1, m.brace_at + 1 + Len(txt))
                    /\ \A q \in 1..Len(txt) : txt[q] \notin ChapterMarkers

\* a finished parse of a text with two chapters where the first chapter's
\* only brace is never closed and still gave an entry
C10_Witness ==
    /\ pc = "parsed"
    /\ Len(chapters) = 2
    /\ Len(chapters[1].solutions) = 1
    /\ ~Balanced(content, marks[1][1].brace_at)

\* C3: extraction terminates on every input.  Within a chapter the scan
\* position never moves backwards and is strictly larger after every pass of
\* the scan loop that does not leave the loop; every pass of the loop of
\* extract_braced_content moves its index forward by one and the index never
\* passes the end of the text; a call on a brace that is never closed returns
\* with the position at the end of the text; and parse_solutions returns.
C3_Terminates ==
    /\ [][pc # "chapter" => pos' >= pos]_vars
    /\ [][(pc \in {"scan", "brace_return"} /\ pc' = "scan") => pos' > pos]_vars
    /\ [][(pc = "brace_loop" /\ pc' = "brace_loop") => i' = i + 1]_vars
    /\ [](pc = "brace_loop" => i <= Len(text))
    /\ [](pos <= Len(chapter_content))
    /\ []((pc = "brace_return" /\ ~Balanced(text, start_pos)) => ret = Pair(result, Len(text)))
    /\ <>(pc = "parsed")

\* a brace that is never closed has been read to the end of the chapter and
\* the call has returned
C3_Witness ==
    /\ pc = "brace_return"
    /\ ret.some
    /\ ~Balanced(text, start_pos)
    /\ Len(ret.content) >= 1
    /\ i = Len(text)
    /\ ret.next = Len(text)

\* the text of chapter k and the comments of it that are immediately followed
\* by a well-formed solution marker: "\eocesol", "{", and a matching "}"
\* inside the chapter
SpanText(k) == Slice(content, SpanFirst(k), SpanEnd(k))
WellFormedAt(k) ==
    {p \in 0..(Len(SpanText(k)) - 3) :
        /\ At(SpanText(k), p) \in Comments
        /\ At(SpanText(k), p + 1) = "\\eocesol"
        /\ At(SpanText(k), p + 2) = "{"
        /\ Balanced(SpanText(k), p + 2)}
ExpectedEntry(k, p) ==
    <<ExerciseNum(At(SpanText(k), p)),
      Slice(SpanText(k), p + 3, MatchingClose(SpanText(k), p + 2))>>

RECURSIVE ExpectedFrom(_, _)
ExpectedFrom(k, ps) ==
    IF ps = {} THEN <<>>
    ELSE LET p == CHOOSE x \in ps : \A y \in ps : x <= y
         IN  <<ExpectedEntry(k, p)>> \o ExpectedFrom(k, ps \ {p})

\* C1: when parse_solutions returns, each chapter's list holds exactly one
\* entry (number, text) per exercise comment of the chapter that is
\* immediately followed by a well-formed solution marker, nothing else, in
\* source order.
C1_OneEntryPerMarkedComment ==
    pc = "parsed" =>
        /\ Len(chapters) = Cardinality(Markers)
        /\ \A k \in 1..Len(chapters) :
              chapters[k].solutions = ExpectedFrom(k, WellFormedAt(k))

\* the last exercise comment of chapter k before position p of the input
CommentsBefore(k, p) ==
    {q \in SpanFirst(k)..(p - 1) : At(content, q) \in Comments}
LastCommentBefore(k, p) ==
    CHOOSE q \in CommentsBefore(k, p) : \A r \in CommentsBefore(k, p) : r <= q

\* C9: the number of every entry is the number of the last exercise comment
\* that precedes the entry's solution marker in the chapter: a solution is
\* never attributed to an earlier comment when another comment lies between.
C9_NumberOfNearestComment ==
    \A k \in 1..Len(marks) :
        \A j \in 1..Len(marks[k]) :
            EntriesOf(k)[j][1] =
                ExerciseNum(At(content, LastCommentBefore(k, marks[k][j].brace_at - 1)))

-----------------------------------------------------------------------------
(* convert_latex_to_pretext(latex_content)                                 *)
(*                                                                         *)
(* Units of a solution text: single characters ("a", " ", "\n", ".", "&",  *)
(* "[", "]", "<", ">", "$", "~", "}", the double quote), the LaTeX         *)
(* literals the rules look for ("\\\\" is the line break \\, TICKS, "''",    *)
(* "\\emph{", "\\textbf{", "\\begin{align*}", "\\end{align*}",             *)
(* "\\rightarrow"), the tails of the XML entities ("amp;", "lt;", "gt;",   *)
(* "quot;", "apos;"), and the literals the rules write ("[Math:",          *)
(* "[Figure:", "<m>", "</m>", "<em>", ...).  The alphabets below are       *)
(* chosen so that no regular expression of the script can match a part of  *)
(* a unit.                                                                 *)

AMP == "¤AMPERSAND¤"
\* the two backquotes that open a LaTeX quotation
TICKS == "BACKQUOTES"
Space == {" ", "\n"}

RECURSIVE Flatten(_)
Flatten(ss) == IF ss = <<>> THEN <<>> ELSE Head(ss) \o Flatten(Tail(ss))

\* str.replace(u, w) on a text: every unit u becomes the units w
ReplaceUnit(s, u, w) == Flatten([k \in 1..Len(s) |-> IF s[k] = u THEN w ELSE <<s[k]>>])

Min(S) == CHOOSE x \in S : \A y \in S : x <= y
Max(S) == CHOOSE x \in S : \A y \in S : x >= y

\* the end of the longest run of units outside Stop that starts at p
RunEnd(s, p, Stop) ==
    Min({q \in p..Len(s) : q = Len(s) \/ At(s, q) \in Stop})

\* '([^...]+)close' at p: the position of the closing unit of the greedy
\* match whose body starts at p, or -1
GreedyClose(s, p, Stop, close) ==
    LET ks == {k \in (p + 1)..RunEnd(s, p, Stop) : k < Len(s) /\ At(s, k) = close}
    IN  IF ks = {} THEN -1 ELSE Max(ks)

\* '(.*?)close' at p: the position of the first closing unit at or after p,
\* or -1
LazyClose(s, p, close) ==
    LET ks == {k \in p..(Len(s) - 1) : At(s, k) = close}
    IN  IF ks = {} THEN -1 ELSE Min(ks)

\* the text from p on cut into the matches of 'open([^...]+)close', scanned
\* from the left without overlap, and the single units between them
RECURSIVE SplitGreedy(_, _, _, _, _)
SplitGreedy(s, p, open, Stop, close) ==
    IF p >= Len(s) THEN <<>>
    ELSE LET k == IF Len(open) <= Len(s) - p /\ Slice(s, p, p + Len(open)) = open
                  THEN GreedyClose(s, p + Len(open), Stop, close) ELSE -1
         IN  IF k # -1
             THEN <<[matched |-> TRUE, body |-> Slice(s, p + Len(open), k)]>>
                  \o SplitGreedy(s, k + 1, open, Stop, close)
             ELSE <<[matched |-> FALSE, body |-> <<At(s, p)>>]>>
                  \o SplitGreedy(s, p + 1, open, Stop, close)

\* the same for 'open(.*?)close'
RECURSIVE SplitLazy(_, _, _, _)
SplitLazy(s, p, open, close) ==
    IF p >= Len(s) THEN <<>>
    ELSE LET k == IF At(s, p) = open THEN LazyClose(s, p + 1, close) ELSE -1
         IN  IF k # -1
             THEN <<[matched |-> TRUE, body |-> Slice(s, p + 1, k)]>>
                  \o SplitLazy(s, k + 1, open, close)
             ELSE <<[matched |-> FALSE, body |-> <<At(s, p)>>]>>
                  \o SplitLazy(s, p + 1, open, close)

\* re.sub(pattern, repl, s): every match replaced by Repl(group 1)
SubMatches(segs, Repl(_)) ==
    Flatten([k \in 1..Len(segs) |->
                IF segs[k].matched THEN Repl(segs[k].body) ELSE segs[k].body])

\* units that hold the character, for the classes of the patterns: not a
\* closing brace, not a closing bracket, not a quote or backquote, not a dollar
WithCloseBrace == {"}", "\\begin{align*}", "\\end{align*}"}
WithCloseBracket == {"]", "[Figure]"}
WithQuoteOrTick == {"\"", TICKS}
WithDollar == {"$"}

\* a unit cut at its "<" and ">" characters
Explode(u) ==
    CASE u = "<m>" -> <<"<", "m", ">">>
      [] u = "</m>" -> <<"<", "/m", ">">>
      [] u = "<em>" -> <<"<", "em", ">">>
      [] u = "</em>" -> <<"<", "/em", ">">>
      [] u = "<alert>" -> <<"<", "alert", ">">>
      [] u = "</alert>" -> <<"<", "/alert", ">">>
      [] u = "<q>" -> <<"<", "q", ">">>
      [] u = "</q>" -> <<"<", "/q", ">">>
      [] OTHER -> <<u>>
ExplodeAll(s) == Flatten([k \in 1..Len(s) |-> Explode(s[k])])

\* line 12: an exercise comment line that lies inside the argument is, for
\* the translator, its words followed by its newline
CommentLines(s) ==
    Flatten([k \in 1..Len(s) |->
        CASE s[k] = "%1" -> <<"% 1", "\n">>
          [] s[k] = "%2" -> <<"% 2", "\n">>
          [] OTHER -> <<s[k]>>])

\* lines 18-20: a whole figure command is one unit
FigureCommands(s) ==
    Flatten([k \in 1..Len(s) |->
        CASE s[k] = "\\FigureFullPath[a]{b}{c}" -> <<"[Figure:", " ", "a", "]">>
          [] s[k] = "\\Figure[a]{b}" -> <<"[Figure]">>
          [] OTHER -> <<s[k]>>])

\* lines 25-29
protect_math_env(math_content) ==
    <<"[Math:", " ">> \o ReplaceUnit(math_content, "&", <<AMP>>) \o <<"]">>

\* lines 31-32 (lines 33-34 look for the literal {\footnotesize, which no
\* modelled text holds)
MathEnvironments(s) ==
    SubMatches(SplitLazy(s, 0, "\\begin{align*}", "\\end{align*}"), protect_math_env)

\* the end of the run of white space that starts at p
SpaceEnd(s, p) == RunEnd(s, p, {u \in {s[k] : k \in 1..Len(s)} : u \notin Space})

\* line 37: re.sub(r'\\\\\s*\.', '.', content)
RECURSIVE BreakBeforePeriod(_, _)
BreakBeforePeriod(s, p) ==
    IF p >= Len(s) THEN <<>>
    ELSE LET q == SpaceEnd(s, p + 1)
         IN  IF At(s, p) = "\\\\" /\ q < Len(s) /\ At(s, q) = "."
             THEN <<".">> \o BreakBeforePeriod(s, q + 1)
             ELSE <<At(s, p)>> \o BreakBeforePeriod(s, p + 1)

\* line 38: re.sub(r'\\\\\s*\n', ' ', content)
RECURSIVE BreakBeforeNewline(_, _)
BreakBeforeNewline(s, p) ==
    IF p >= Len(s) THEN <<>>
    ELSE LET nls == {q \in (p + 1)..(SpaceEnd(s, p + 1) - 1) : At(s, q) = "\n"}
         IN  IF At(s, p) = "\\\\" /\ nls # {}
             THEN <<" ">> \o BreakBeforeNewline(s, Max(nls) + 1)
             ELSE <<At(s, p)>> \o BreakBeforeNewline(s, p + 1)

\* re.sub(r'\s+', ' ', content)
RECURSIVE CollapseSpace(_, _)
CollapseSpace(s, p) ==
    IF p >= Len(s) THEN <<>>
    ELSE IF At(s, p) \in Space
         THEN <<" ">> \o CollapseSpace(s, SpaceEnd(s, p))
         ELSE <<At(s, p)>> \o CollapseSpace(s, p + 1)

\* content.strip()
Strip(s) ==
    LET solid == {k \in 1..Len(s) : s[k] \notin Space}
    IN  IF solid = {} THEN <<>> ELSE SubSeq(s, Min(solid), Max(solid))

\* lines 40-41 and 101-102
NormalizeSpace(s) == Strip(CollapseSpace(s, 0))

\* lines 37-41
LineBreaks(s) ==
    NormalizeSpace(
        ReplaceUnit(BreakBeforeNewline(BreakBeforePeriod(s, 0), 0), "\\\\", <<>>))

\* lines 47-50
replace_emph(inner) == <<"<em>">> \o inner \o <<"</em>">>
Emphasis(s) ==
    SubMatches(SplitGreedy(s, 0, <<"\\emph{">>, WithCloseBrace, "}"), replace_emph)

\* line 53
replace_textbf(inner) == <<"<alert>">> \o inner \o <<"</alert>">>
Bold(s) ==
    SubMatches(SplitGreedy(s, 0, <<"\\textbf{">>, WithCloseBrace, "}"), replace_textbf)

\* lines 57-58
replace_quote(inner) == <<"<q>">> \o inner \o <<"</q>">>
Quotes(s) ==
    SubMatches(
        SplitGreedy(
            SubMatches(SplitGreedy(s, 0, <<TICKS>>, WithQuoteOrTick, "''"), replace_quote),
            0, <<TICKS>>, WithQuoteOrTick, "\""),
        replace_quote)

\* lines 61-65
escape_figure_quotes(body) ==
    <<"[Figure:", " ">> \o ReplaceUnit(body, "\"", <<"&", "quot;">>) \o <<"]">>
FigureQuotes(s) ==
    SubMatches(SplitGreedy(s, 0, <<"[Figure:", " ">>, WithCloseBracket, "]"),
               escape_figure_quotes)

\* lines 68-74
escape_math_markup(body) ==
    <<"[Math:", " ">>
    \o ReplaceUnit(ReplaceUnit(ReplaceUnit(ExplodeAll(body),
            "<", <<"&", "lt;">>), ">", <<"&", "gt;">>), AMP, <<"&", "amp;">>)
    \o <<"]">>
MathMarkup(s) ==
    SubMatches(SplitGreedy(s, 0, <<"[Math:", " ">>, WithCloseBracket, "]"),
               escape_math_markup)

\* lines 81-87
replace_math(math_content) ==
    <<"<m>">>
    \o ReplaceUnit(ReplaceUnit(ExplodeAll(math_content), "<", <<"\\lt">>), ">", <<"\\gt">>)
    \o <<"</m>">>
InlineMath(s) ==
    SubMatches(SplitGreedy(s, 0, <<"$">>, WithDollar, "$"), replace_math)

\* line 92: where the protected span that starts at p ends, or -1
ProtectedClose(s, p) ==
    CASE At(s, p) = "<m>" -> LazyClose(s, p + 1, "</m>")
      [] At(s, p) = "<em>" -> LazyClose(s, p + 1, "</em>")
      [] At(s, p) = "<alert>" -> LazyClose(s, p + 1, "</alert>")
      [] At(s, p) = "<q>" -> LazyClose(s, p + 1, "</q>")
      [] At(s, p) = "[Figure:" -> GreedyClose(s, p + 1, WithCloseBracket, "]")
      [] At(s, p) = "[Math:" -> GreedyClose(s, p + 1, WithCloseBracket, "]")
      [] OTHER -> -1

\* line 92: re.split with one group: plain part, span, plain part, span, ...
RECURSIVE SplitProtected(_, _, _)
SplitProtected(s, p, plain) ==
    IF p >= Len(s) THEN <<plain>>
    ELSE LET k == ProtectedClose(s, p)
         IN  IF k # -1
             THEN <<plain, Slice(s, p, k + 1)>> \o SplitProtected(s, k + 1, <<>>)
             ELSE SplitProtected(s, p + 1, Append(plain, At(s, p)))

\* units whose first character is "<" or "["
StartsWithLt == {"<", "<m>", "</m>", "<em>", "</em>", "<alert>", "</alert>", "<q>", "</q>"}
StartsWithBracket == {"[", "[Math:", "[Figure:", "[Figure]"}

\* line 95: not parts[i].startswith('<') and not parts[i].startswith('[')
IsTextPart(part) ==
    part = <<>> \/ (part[1] \notin StartsWithLt /\ part[1] \notin StartsWithBracket)

EntityTails == {"amp;", "lt;", "gt;", "quot;", "apos;"}

\* a variant without the lookahead of line 97
NeverEntity(part, k) == FALSE

\* line 97: the lookahead (?!amp;|lt;|gt;|quot;|apos;) fails at the "&" at k
AlreadyEntity(part, k) == k < Len(part) /\ part[k + 1] \in EntityTails

\* line 97
EscapeAmpersands(part) ==
    Flatten([k \in 1..Len(part) |->
                IF part[k] = "&" /\ ~AlreadyEntity(part, k)
                THEN <<"&", "amp;">> ELSE <<part[k]>>])

\* lines 92-98
Ampersands(s) ==
    LET parts == SplitProtected(s, 0, <<>>)
    IN  Flatten([k \in 1..Len(parts) |->
                    IF IsTextPart(parts[k]) THEN EscapeAmpersands(parts[k])
                    ELSE parts[k]])

\* lines 12-104, in the order of the source
ConvertLatexToPretext(s) ==
    LET figures == FigureCommands(CommentLines(s))
        environments == MathEnvironments(figures)
        breaks == LineBreaks(environments)
        tildes == ReplaceUnit(breaks, "~", <<" ">>)
        emphasis == Emphasis(tildes)
        bold == Bold(emphasis)
        quotes == Quotes(bold)
        figquotes == FigureQuotes(quotes)
        mathmarkup == MathMarkup(figquotes)
        arrows == ReplaceUnit(mathmarkup, "\\rightarrow", <<"\\to">>)
        inline == InlineMath(arrows)
        escaped == Ampersands(inline)
    IN  NormalizeSpace(escaped)

ProseAlphabet == {"a", " ", "&", "amp;", "[", "]", "\\begin{align*}", "\\end{align*}"}
MarkupAlphabet == {"a", "<", "$", TICKS, "''", "\"", "\\emph{", "\\textbf{", "}"}
LayoutAlphabet == {"a", " ", "\n", ".", "~", "\\\\", "\\rightarrow",
                   "\\FigureFullPath[a]{b}{c}", "\\Figure[a]{b}"}

\* the translator is called on a text
Convert ==
    /\ pc = "convert"
    /\ converted' = ConvertLatexToPretext(latex_content)
    /\ pc' = "converted"
    /\ UNCHANGED <<latex_content, reconverted, parseVars, braceVars, solVars, mainVars>>

\* the translator is called on the text it returned
ConvertAgain ==
    /\ pc = "converted"
    /\ reconverted' = ConvertLatexToPretext(converted)
    /\ pc' = "reconverted"
    /\ UNCHANGED <<latex_content, converted, parseVars, braceVars, solVars, mainVars>>

InitConvert ==
    /\ pc = "convert"
    /\ latex_content \in Texts(ProseAlphabet, MaxProseLen)
                         \cup Texts(MarkupAlphabet, MaxMarkupLen)
                         \cup Texts(LayoutAlphabet, MaxMarkupLen)
    /\ converted = <<>>
    /\ reconverted = <<>>
    /\ content = <<>>
    /\ ParseIdle
    /\ text = <<>>
    /\ start_pos = 0
    /\ BraceIdle
    /\ SolIdle
    /\ MainIdle

NextConvert ==
    \/ Convert
    \/ ConvertAgain

SpecConvert == InitConvert /\ [][NextConvert]_vars

-----------------------------------------------------------------------------
(* Claims about convert_latex_to_pretext                                   *)

Units(s) == {s[k] : k \in 1..Len(s)}
Occurrences(s, u) == Cardinality({k \in 1..Len(s) : s[k] = u})

\* the "&" of s that do not start the entity "&amp;"
BareAmpersands(s) ==
    Cardinality({k \in 1..Len(s) : s[k] = "&" /\ ~(k < Len(s) /\ s[k + 1] = "amp;")})

\* C4: in the result every "&" of the input that lies in plain prose or in
\* an align* block stands as "&amp;" exactly once: no "&" is left bare or as
\* the private placeholder, none is added or lost, one "amp;" is added for
\* each bare "&" of the input and none for an "&" that already starts
\* "&amp;".  (No modelled input holds a tag or a placeholder of its own.)
C4_AmpersandEscapedOnce ==
    pc = "converted" =>
        /\ BareAmpersands(converted) = 0
        /\ AMP \notin Units(converted)
        /\ Occurrences(converted, "&") = Occurrences(latex_content, "&")
        /\ Occurrences(converted, "amp;") =
              Occurrences(latex_content, "amp;") + BareAmpersands(latex_content)

\* C5 as stated: translating the translation changes nothing.
C5_Idempotent == pc = "reconverted" => reconverted = converted

\* units that are no LaTeX markup: no backslash, no dollar, no backquote
PlainUnits == {"a", " ", "\n", ".", "~", "&", "amp;", "[", "]", "<", "\"", "''", "}"}

\* C5 as amended: for an input text that holds no backslash, no dollar sign
\* and no backquote, translating the translation changes nothing.
C5_IdempotentOnPlainText ==
    (pc = "reconverted" /\ Units(latex_content) \subseteq PlainUnits)
    => reconverted = converted

\* a plain text with an ampersand and a run of blanks was translated twice,
\* and the first translation changed it
C5_Witness ==
    /\ pc = "reconverted"
    /\ Units(latex_content) \subseteq PlainUnits
    /\ "&" \in Units(latex_content)
    /\ \E k \in 1..(Len(latex_content) - 1) :
          latex_content[k] = " " /\ latex_content[k + 1] = " "
    /\ converted # latex_content
    /\ Occurrences(converted, "amp;") > Occurrences(latex_content, "amp;")

-----------------------------------------------------------------------------
(* create_pretext_solution(exercise_num, solution_text)                    *)
(*                                                                         *)
(* Units of a solution text: one whole part marker "(a)" or "(b)" (a match *)
(* of r'\(([a-z])\)'), the blank, the period and the letter "x".  A        *)
(* rendered text is the joined lines: its units are the literal pieces of  *)
(* the lines, the units of the translated texts, and "\n" between lines.   *)

PartMarkers == {"(a)", "(b)"}
Letter(u) == IF u = "(a)" THEN "a" ELSE "b"
SolutionAlphabet == PartMarkers \cup {" ", ".", "x"}

\* '\n'.join(ls)
RECURSIVE JoinLines(_)
JoinLines(ls) ==
    IF ls = <<>> THEN <<>>
    ELSE IF Len(ls) = 1 THEN Head(ls)
    ELSE Head(ls) \o <<"\n">> \o JoinLines(Tail(ls))

\* line 199: re.split(r'\(([a-z])\)\s*', solution_text) from position p on,
\* plain being the units since the last match
RECURSIVE SplitParts(_, _, _)
SplitParts(s, p, plain) ==
    IF p >= Len(s) THEN <<plain>>
    ELSE IF At(s, p) \in PartMarkers
         THEN <<plain, <<Letter(At(s, p))>>>> \o SplitParts(s, SpaceEnd(s, p + 1), <<>>)
         ELSE SplitParts(s, p + 1, Append(plain, At(s, p)))

\* a list is rendered whenever a marker was found
AnyMarker(parts) == Len(parts) > 1

\* line 201: len(parts) > 1 and parts[0].strip() == ''
IsMultiPart(parts) == Len(parts) > 1 /\ Strip(At(parts, 0)) = <<>>

\* line 216: re.sub(r'\.\s*$', '', t)
StripTrailingPeriod(t) ==
    LET ks == {k \in 1..Len(t) : t[k] = "." /\ \A j \in (k + 1)..Len(t) : t[j] \in Space}
    IN  IF ks = {} THEN t ELSE SubSeq(t, 1, Min(ks) - 1)

\* line 219: converted_text.endswith('.')
EndsWithPeriod(t) == t # <<>> /\ t[Len(t)] = "."

OpenItem == "          <li>"
CloseItem == "</li>"
OpenList == "        <ol marker=\"(a)\">"
OpenParagraph == "      <p>"
OpenSolution == "    <solution>"

\* lines 210-224: the lines the while loop appends from i = k on
RECURSIVE ListItems(_, _)
ListItems(parts, k) ==
    IF ~(k < Len(parts)) THEN <<>>
    ELSE IF k + 1 < Len(parts)
         THEN LET part_text == StripTrailingPeriod(Strip(At(parts, k + 1)))
                  converted_text == ConvertLatexToPretext(part_text)
                  closed_text == IF EndsWithPeriod(converted_text)
                                 THEN converted_text
                                 ELSE Append(converted_text, ".")
              IN  <<<<OpenItem>> \o closed_text \o <<CloseItem>>>>
                     \o ListItems(parts, k + 2)
         ELSE ListItems(parts, k + 1)

\* lines 195-241
CreatePretextSolution(num, sol) ==
    LET parts == SplitParts(sol, 0, <<>>)
        title == <<"      <title>Exercise ", num, "</title>">>
    IN  IF IsMultiPart(parts)
        THEN JoinLines(<<<<OpenSolution>>, title, <<OpenParagraph>>, <<OpenList>>>>
                       \o ListItems(parts, 1)
                       \o <<<<"        </ol>">>, <<"      </p>">>, <<"    </solution>">>>>)
        ELSE JoinLines(<<<<OpenSolution>>, title, <<OpenParagraph>>,
                         <<"        ">> \o ConvertLatexToPretext(sol),
                         <<"      </p>">>, <<"    </solution>">>>>)

\* create_pretext_solution is called on a solution
CreateSolution ==
    /\ pc = "solution"
    /\ sol_xml' = CreatePretextSolution(sol_exercise_num, sol_text)
    /\ pc' = "rendered"
    /\ UNCHANGED <<sol_exercise_num, sol_text, parseVars, braceVars, convVars, mainVars>>

InitSolution ==
    /\ pc = "solution"
    /\ sol_exercise_num \in {"1", "2"}
    /\ sol_text \in Texts(SolutionAlphabet, MaxSolLen)
    /\ sol_xml = <<>>
    /\ content = <<>>
    /\ ParseIdle
    /\ text = <<>>
    /\ start_pos = 0
    /\ BraceIdle
    /\ ConvIdle
    /\ MainIdle

NextSolution == CreateSolution

SpecSolution == InitSolution /\ [][NextSolution]_vars

-----------------------------------------------------------------------------
(* Claims about create_pretext_solution                                    *)

\* the positions (1-based) of the part markers of a solution text
MarkerPositions(s) == {p \in 1..Len(s) : s[p] \in PartMarkers}

\* the text starts, after optional white space, with a part marker
StartsWithMarker(s) ==
    \E p \in MarkerPositions(s) : \A q \in 1..(p - 1) : s[q] \in Space

\* the k-th of the positions ps, in increasing order
Nth(ps, k) == CHOOSE p \in ps : Cardinality({q \in ps : q <= p}) = k

\* the units of the source text between its k-th marker and the next one
SourceSegment(s, k) ==
    LET ps == MarkerPositions(s)
        last == IF k < Cardinality(ps) THEN Nth(ps, k + 1) - 1 ELSE Len(s)
    IN  SubSeq(s, Nth(ps, k) + 1, last)

\* the units of the rendered text inside its k-th <li> element
RenderedItem(x, k) ==
    LET opens == {p \in 1..Len(x) : x[p] = OpenItem}
        closes == {p \in 1..Len(x) : x[p] = CloseItem}
    IN  SubSeq(x, Nth(opens, k) + 1, Nth(closes, k) - 1)

\* C6: a solution is rendered as an ordered list exactly when its text
\* starts, after optional white space, with a part marker; the list then
\* has one <li> item per marker of the text, in the order of the text (the
\* k-th item carries the words of the k-th part), and every item ends with
\* a period; any other text is rendered as one paragraph with no list.
C6_ListIffLeadingMarker ==
    pc = "rendered" =>
        LET n == Cardinality(MarkerPositions(sol_text)) IN
        /\ (OpenList \in Units(sol_xml)) <=> StartsWithMarker(sol_text)
        /\ Occurrences(sol_xml, OpenParagraph) = 1
        /\ Occurrences(sol_xml, OpenSolution) = 1
        /\ StartsWithMarker(sol_text) =>
              /\ Occurrences(sol_xml, OpenList) = 1
              /\ Occurrences(sol_xml, OpenItem) = n
              /\ Occurrences(sol_xml, CloseItem) = n
              /\ \A k \in 1..n :
                    /\ EndsWithPeriod(RenderedItem(sol_xml, k))
                    /\ Occurrences(RenderedItem(sol_xml, k), "x") =
                          Occurrences(SourceSegment(sol_text, k), "x")
        /\ ~StartsWithMarker(sol_text) =>
              /\ OpenItem \notin Units(sol_xml)
              /\ CloseItem \notin Units(sol_xml)
              /\ Occurrences(sol_xml, "x") = Occurrences(sol_text, "x")

\* a two-part solution was rendered: the first part ended with a period in
\* the source, the second did not, and the parts carry different words
C6_Witness ==
    /\ pc = "rendered"
    /\ StartsWithMarker(sol_text)
    /\ Cardinality(MarkerPositions(sol_text)) = 2
    /\ EndsWithPeriod(SourceSegment(sol_text, 1))
    /\ ~EndsWithPeriod(SourceSegment(sol_text, 2))
    /\ Occurrences(SourceSegment(sol_text, 1), "x") = 1
    /\ Occurrences(SourceSegment(sol_text, 2), "x") = 0
    /\ Occurrences(sol_xml, OpenItem) = 2

-----------------------------------------------------------------------------
(* generate_pretext_file(chapters, output_path) and main()                 *)

XmlHeader == "<?xml version=\"1.0\" encoding=\"UTF-8\" ?>"
OpenSection == "  <section xml:id=\"solutions-"
CloseSection == "  </section>"
CloseAppendix == "</appendix>"

\* lines 246-259: the lines before the first section
Header ==
    << <<XmlHeader>>,
       <<>>,
       <<"<appendix xmlns:xi=\"http://www.w3.org/2001/XInclude\" xml:id=\"appendix-solutions\">">>,
       <<"  <title>Exercise Solutions</title>">>,
       <<>>,
       <<"  <introduction>">>,
       <<"    <p>">>,
       <<"      This appendix contains solutions to selected odd-numbered exercises from each chapter.">>,
       <<"      These solutions are provided to help you check your work and understand the problem-solving process.">>,
       <<"    </p>">>,
       <<"  </introduction>">>,
       <<>> >>

\* lines 262-272
chapter_ids ==
    [name \in {"Introduction to data", "Summarizing data", "Probability",
               "Distributions of random variables", "Foundations for inference",
               "Inference for categorical data", "Inference for numerical data",
               "Introduction to linear regression", "Multiple and logistic regression"} |->
        CASE name = "Introduction to data" -> "ch01"
          [] name = "Summarizing data" -> "ch02"
          [] name = "Probability" -> "ch03"
          [] name = "Distributions of random variables" -> "ch04"
          [] name = "Foundations for inference" -> "ch05"
          [] name = "Inference for categorical data" -> "ch06"
          [] name = "Inference for numerical data" -> "ch07"
          [] name = "Introduction to linear regression" -> "ch08"
          [] name = "Multiple and logistic regression" -> "ch09"]

\* line 277: chapter["name"].title(), on the chapter names of the model
Title(name) ==
    CASE name = "Summarizing data" -> "Summarizing Data"
      [] name = "probability" -> "Probability"
      [] OTHER -> name

\* the table is searched for the title-cased name
ChapterIdOfTitle(name) ==
    IF Title(name) \in DOMAIN chapter_ids THEN chapter_ids[Title(name)] ELSE "chXX"

\* line 275: chapter_ids.get(chapter['name'], 'chXX')
ChapterId(name) ==
    IF name \in DOMAIN chapter_ids THEN chapter_ids[name] ELSE "chXX"

\* lines 280-283: the elements the inner loop appends for the entries
\* from the k-th on
RECURSIVE SolutionLines(_, _)
SolutionLines(entries, k) ==
    IF k > Len(entries) THEN <<>>
    ELSE <<CreatePretextSolution(entries[k][1], entries[k][2]), <<>>>>
            \o SolutionLines(entries, k + 1)

\* lines 275-286: the elements one pass of the chapter loop appends
ChapterLines(chapter) ==
    << <<OpenSection, ChapterId(chapter.name), "\">">>,
       <<"    <title>", Title(chapter.name), "</title>">>,
       <<>> >>
    \o SolutionLines(chapter.solutions, 1)
    \o << <<CloseSection>>, <<>> >>

\* the input file of a run is a sequence of blocks: a chapter marker, an
\* annotated one-paragraph solution, an annotated two-part solution, an
\* annotation with no solution, an annotated solution whose brace is not
\* closed
MainBlocks ==
    {<<m>> : m \in ChapterMarkers} \cup
    { <<"%1", "\\eocesol", "{", "x", ".", "}">>,
      <<"%2", "\\eocesol", "{", "(a)", "x", ".", " ", "(b)", "x", "}">>,
      <<"%1">>,
      <<"%2", "\\eocesol", "{", "x">> }
InputTexts == {Flatten(bs) : bs \in Texts(MainBlocks, MaxBlocks)}

\* what the output path holds before the run
PreviousOutput == File(<<"previous run">>)

\* main lines 300-305, parse_solutions lines 138-139: the input is opened
\* and read; open raises if the file does not exist
ReadInput ==
    /\ pc = "main"
    /\ IF input_file.exists
       THEN /\ content' = input_file.data
            /\ pc' = "parse"
       ELSE /\ pc' = "failed"
            /\ UNCHANGED content
    /\ UNCHANGED <<chapters, chap_i, chapter_content, solutions, pos, exercise_num,
                   comment_end, comment_at, eocesol_end, marks, braceVars, otherVars>>

\* main lines 307-308, generate_pretext_file lines 246-272
GenHeader ==
    /\ pc = "parsed"
    /\ lines' = Header
    /\ gen_i' = 0
    /\ pc' = "generate"
    /\ UNCHANGED <<input_file, output_file, writes, parseVars, braceVars, convVars, solVars>>

\* the chapter loop writes the document so far after each chapter
GenChapterStreaming ==
    /\ pc = "generate"
    /\ gen_i < Len(chapters)
    /\ lines' = lines \o ChapterLines(chapters[gen_i + 1])
    /\ gen_i' = gen_i + 1
    /\ output_file' = File(JoinLines(lines'))
    /\ writes' = writes + 1
    /\ UNCHANGED <<pc, input_file, parseVars, braceVars, convVars, solVars>>

\* lines 274-286: one pass of the chapter loop
GenChapter ==
    /\ pc = "generate"
    /\ gen_i < Len(chapters)
    /\ lines' = lines \o ChapterLines(chapters[gen_i + 1])
    /\ gen_i' = gen_i + 1
    /\ UNCHANGED <<pc, input_file, output_file, writes, parseVars, braceVars,
                   convVars, solVars>>

\* lines 288-292: the closing line, then the output is opened and the whole
\* joined text is written; open raises if the path cannot be opened
GenWrite ==
    /\ pc = "generate"
    /\ ~(gen_i < Len(chapters))
    /\ lines' = Append(lines, <<CloseAppendix>>)
    /\ \E opened \in BOOLEAN :
          IF opened
          THEN /\ output_file' = File(JoinLines(lines'))
               /\ writes' = writes + 1
               /\ pc' = "written"
          ELSE /\ pc' = "failed"
               /\ UNCHANGED <<output_file, writes>>
    /\ UNCHANGED <<input_file, gen_i, parseVars, braceVars, convVars, solVars>>

\* lines 294-297 and 310: the report is printed, main returns
Report ==
    /\ pc = "written"
    /\ pc' = "done"
    /\ UNCHANGED <<parseVars, braceVars, otherVars>>

InitMain ==
    /\ pc = "main"
    /\ input_file \in {NoFile} \cup {File(t) : t \in InputTexts}
    /\ output_file \in {NoFile, PreviousOutput}
    /\ lines = <<>>
    /\ gen_i = 0
    /\ writes = 0
    /\ content = <<>>
    /\ ParseIdle
    /\ text = <<>>
    /\ start_pos = 0
    /\ BraceIdle
    /\ ConvIdle
    /\ SolIdle

NextMain ==
    \/ ReadInput
    \/ NextParse
    \/ GenHeader
    \/ GenChapter
    \/ GenWrite
    \/ Report

SpecMain == InitMain /\ [][NextMain]_vars

-----------------------------------------------------------------------------
(* Claims about generate_pretext_file and main                             *)

\* the names the lookup table of the script has an id for
TableNames ==
    {"Introduction to data", "Summarizing data", "Probability",
     "Distributions of random variables", "Foundations for inference",
     "Inference for categorical data", "Inference for numerical data",
     "Introduction to linear regression", "Multiple and logistic regression"}

IsSectionLine(l) == l # <<>> /\ l[1] = OpenSection
SectionLines == SelectSeq(lines, IsSectionLine)

\* the id units of the sections of a joined document, in order
SectionIdsOf(doc) ==
    LET opens == {p \in 1..Len(doc) : doc[p] = OpenSection}
    IN  [k \in 1..Cardinality(opens) |-> doc[Nth(opens, k) + 1]]

\* C7: the k-th section opened carries the id "solutions-" followed by the
\* table's id for the exact name of the k-th chapter ("Probability" gives
\* ch03, "Summarizing data" gives ch02), and by chXX for every name that is
\* not a key of the table, so that all unmapped chapters of one document
\* carry the same section id; the written document carries these ids.
C7_SectionIds ==
    pc \in {"generate", "written", "done"} =>
        /\ Len(SectionLines) = gen_i
        /\ \A k \in 1..Len(SectionLines) :
              /\ SectionLines[k][1] = "  <section xml:id=\"solutions-"
              /\ Len(SectionLines[k]) = 3
              /\ SectionLines[k][3] = "\">"
              /\ chapters[k].name = "Probability" => SectionLines[k][2] = "ch03"
              /\ chapters[k].name = "Summarizing data" => SectionLines[k][2] = "ch02"
              /\ chapters[k].name \notin TableNames => SectionLines[k][2] = "chXX"
        /\ \A j, k \in 1..Len(SectionLines) :
              (chapters[j].name \notin TableNames /\ chapters[k].name \notin TableNames)
              => SectionLines[j] = SectionLines[k]
        /\ pc \in {"written", "done"} =>
              SectionIdsOf(output_file.data) =
                 [k \in 1..Len(SectionLines) |-> SectionLines[k][2]]

\* a document was written for the chapters "Probability", "probability" and
\* "Review", in any order: one section is solutions-ch03 and two sections
\* are solutions-chXX
C7_Witness ==
    /\ pc = "written"
    /\ Len(chapters) = 3
    /\ {chapters[k].name : k \in 1..3} = {"Probability", "probability", "Review"}
    /\ Occurrences(output_file.data, "ch03") = 1
    /\ Occurrences(output_file.data, "chXX") = 2

\* the number of entries of all chapters
TotalSolutions ==
    Cardinality(UNION {{<<k, j>> : j \in 1..Len(chapters[k].solutions)} :
                          k \in 1..Len(chapters)})

\* doc is the whole document for the input that was read: it runs from the
\* XML header to the closing tag of the appendix and has one section per
\* chapter marker of the input and one solution per extracted entry
Complete(doc) ==
    /\ doc # <<>>
    /\ doc[1] = XmlHeader
    /\ doc[Len(doc)] = CloseAppendix
    /\ Occurrences(doc, CloseAppendix) = 1
    /\ Occurrences(doc, OpenSection) = Cardinality(Markers)
    /\ Occurrences(doc, CloseSection) = Cardinality(Markers)
    /\ Occurrences(doc, OpenSolution) = TotalSolutions
    /\ Occurrences(doc, "    </solution>") = TotalSolutions

\* C8: the output file is written at most once, and a write has happened
\* exactly when the run reached its end; a run that failed has written
\* nothing; the only step that changes the output file is the one write,
\* taken after the input was read, every chapter was extracted and every
\* chapter was assembled, and it leaves the whole document in the file.
C8_WrittenOnceAtEnd ==
    /\ [](writes <= 1)
    /\ []((writes = 1) <=> (pc \in {"written", "done"}))
    /\ [](pc = "failed" => writes = 0)
    /\ [](pc \in {"written", "done"} => Complete(output_file.data))
    /\ [][writes' # writes => output_file' # output_file]_vars
    /\ [][output_file' # output_file =>
             /\ pc = "generate" /\ pc' = "written"
             /\ writes = 0 /\ writes' = 1
             /\ input_file.exists /\ content = input_file.data
             /\ Len(chapters) = Cardinality(Markers)
             /\ gen_i = Len(chapters)
             /\ output_file'.data = JoinLines(lines')
             /\ Complete(output_file'.data)]_vars

\* a run over two chapters or more, with at least one solution, wrote the
\* whole document and returned
C8_Witness ==
    /\ pc = "done"
    /\ writes = 1
    /\ Len(chapters) >= 2
    /\ TotalSolutions >= 1
    /\ output_file.exists
    /\ output_file # PreviousOutput
    /\ Complete(output_file.data)

====
